---- MODULE Spec2Model ----
(***************************************************************************)
(* Model of the AFIP ticket client of recepy: the ticket request builder   *)
(* and signer of wsaa.py (WSAA.create_tra, WSAA.sign_tra, main) and the    *)
(* ticket cache / orchestrator WSAA.get_ticket that ws_sr_padron.py,       *)
(* ws_sr_padron_a4.py and wsfe.py call.                                    *)
(*                                                                         *)
(* Time is in whole seconds; a time server timestamp is in milliseconds.   *)
(* An optional value is a sequence of length 0 (None) or 1.                *)
(***************************************************************************)
EXTENDS Integers, Sequences, FiniteSets, TLC

\* ---------------------------------------------------------------- bounds
MaxMinutesWest == 720
MaxMinutesEast == 840
NumProcs == 2
MaxTicks == 2
\* minutes the local clock is behind UTC (Argentina: 180)
MinutesWest == 180

\* ------------------------------------------------------ program constants
LocalOffsetMinutes == 0 - MinutesWest
TraTtlMinutes == 30
\* random.randint(0, 4294967295): the upper limit is 2^32 - 1, kept as its
\* two 16-bit halves (each at most MaxHalf)
MaxHalf == 65535
SafetyMargin == 120

\* ------------------------------------------------------------ input sets
Procs == 1..NumProcs
WebServices == {"ws_sr_padron_a4", "wsfev1"}
Connections == {"prod", "test"}
\* instants at which a run of the model starts: the epoch, and shortly
\* before a local midnight so that generationTime + ttl rolls over to the next day
StartTimes == {0, 86400 - 60 * TraTtlMinutes - 1 - 60 * LocalOffsetMinutes}
Fractions == {0, 500}
UniqueIds == { [hi |-> 0, lo |-> 0], [hi |-> MaxHalf, lo |-> MaxHalf] }
Tokens == {"AAA", "CCC"}
\* seconds between the submit and the expiration the remote grants
ExpOffsets == {SafetyMargin, SafetyMargin + 1}
ToolStates == {"missing", "ok", "error"}
Elements == {"token", "sign", "expirationTime"}

None == << >>
Some(x) == << x >>

\* ------------------------------------------------------------- rendering
Digit(n) == CASE n = 0 -> "0" [] n = 1 -> "1" [] n = 2 -> "2" [] n = 3 -> "3"
              [] n = 4 -> "4" [] n = 5 -> "5" [] n = 6 -> "6" [] n = 7 -> "7"
              [] n = 8 -> "8" [] n = 9 -> "9"

\* str(int) for 0 <= n < 100
StrInt(n) == IF n < 10 THEN << Digit(n) >> ELSE << Digit(n \div 10), Digit(n % 10) >>

\* int formatted with two digits, as in %02d
TwoDigits(n) == << Digit(n \div 10), Digit(n % 10) >>

\* str(timedelta(seconds=s)) for 0 <= s < 86400: "H:MM:SS"
TimedeltaStr(s) ==
    StrInt(s \div 3600) \o << ":" >> \o TwoDigits((s % 3600) \div 60)
        \o << ":" >> \o TwoDigits(s % 60)

\* seq[:-3]
DropLast3(seq) == SubSeq(seq, 1, Len(seq) - 3)

\* the offset without the leading zero of the hour
get_timezone_unpadded(offsetMinutes) ==
    LET utcAhead == offsetMinutes < 0
        sign     == IF utcAhead THEN "-" ELSE "+"
        secs     == (IF utcAhead THEN 0 - offsetMinutes ELSE offsetMinutes) * 60
    IN  << sign >> \o DropLast3(TimedeltaStr(secs))

\* the offset with a zero always put before the hour
get_timezone_always_padded(offsetMinutes) ==
    LET utcAhead == offsetMinutes < 0
        sign     == IF utcAhead THEN "-" ELSE "+"
        secs     == (IF utcAhead THEN 0 - offsetMinutes ELSE offsetMinutes) * 60
    IN  << sign, "0" >> \o DropLast3(TimedeltaStr(secs))

\* get_timezone: the local and the UTC rendering of the same instant differ
\* by the local offset
get_timezone(offsetMinutes) ==
    LET utcAhead == offsetMinutes < 0
        sign     == IF utcAhead THEN "-" ELSE "+"
        secs     == (IF utcAhead THEN 0 - offsetMinutes ELSE offsetMinutes) * 60
        seconds  == DropLast3(TimedeltaStr(secs))
    IN  IF Len(seconds) = 4 THEN << sign, "0" >> \o seconds
                            ELSE << sign >> \o seconds

\* datetime.isoformat() of a naive datetime without microseconds; the date
\* is kept as the day number
isoformat(t) ==
    [day |-> t \div 86400, hh |-> TwoDigits((t % 86400) \div 3600),
     mm |-> TwoDigits((t % 3600) \div 60), ss |-> TwoDigits(t % 60)]

DigitVal(c) == CASE c = "0" -> 0 [] c = "1" -> 1 [] c = "2" -> 2 [] c = "3" -> 3
                 [] c = "4" -> 4 [] c = "5" -> 5 [] c = "6" -> 6 [] c = "7" -> 7
                 [] c = "8" -> 8 [] c = "9" -> 9

\* the instant, in seconds, that an ISO-8601 rendering denotes
IsoSeconds(iso) ==
    iso.day * 86400 + (DigitVal(iso.hh[1]) * 10 + DigitVal(iso.hh[2])) * 3600
        + (DigitVal(iso.mm[1]) * 10 + DigitVal(iso.mm[2])) * 60
        + DigitVal(iso.ss[1]) * 10 + DigitVal(iso.ss[2])

\* ------------------------------------------------------------ WSAA (code)
\* the windows of a TRA with the expiration taken from the timestamp
\* rounded up instead of from the truncated current_time
TraTimesRoundedUp(timestamp) ==
    LET current_time == (timestamp \div 1000) + LocalOffsetMinutes * 60
        rounded      == ((timestamp + 999) \div 1000) + LocalOffsetMinutes * 60
    IN  [generation_time |-> isoformat(current_time),
         expiration_time |-> isoformat(rounded + TraTtlMinutes * 60)]

\* WSAA.create_tra, the validity window: current_time is the local time of
\* the timestamp (milliseconds) without its fraction of a second
TraTimes(timestamp) ==
    LET current_time == (timestamp \div 1000) + LocalOffsetMinutes * 60
    IN  [generation_time |-> isoformat(current_time),
         expiration_time |-> isoformat(current_time + TraTtlMinutes * 60)]

\* the destination with the production name for all but the test connection
DestinationHomoForTestOnly(connection) ==
    LET dcn == IF connection = "test" THEN "wsaahomo" ELSE "wsaa"
    IN  << "cn=", dcn, ",o=afip,c=ar,serialNumber=CUIT 33693450239" >>

\* WSAA.create_tra, the destination: 'cn=' + dcn + ',o=afip,...'
Destination(connection) ==
    LET dcn == IF connection = "prod" THEN "wsaa" ELSE "wsaahomo"
    IN  << "cn=", dcn, ",o=afip,c=ar,serialNumber=CUIT 33693450239" >>

\* str(n) of the integer n = hi * 2^16 + lo, by repeated division by ten
RECURSIVE str_uint(_)
str_uint(n) ==
    LET low      == (n.hi % 10) * (MaxHalf + 1) + n.lo
        quotient == [hi |-> n.hi \div 10, lo |-> low \div 10]
    IN  IF quotient.hi = 0 /\ quotient.lo = 0
        THEN << Digit(low % 10) >>
        ELSE Append(str_uint(quotient), Digit(low % 10))

\* WSAA.create_tra: timestamp is the optional time server answer;
\* datetime.fromtimestamp(None) raises, which is None here; uniqueId is
\* what random.randint(0, 4294967295) draws
create_tra(connection, web_service, timestamp, uniqueId) ==
    IF timestamp = None THEN None
    ELSE LET dest     == Destination(connection)
             times    == TraTimes(timestamp[1])
             timezone == get_timezone(LocalOffsetMinutes)
         IN  Some([version  |-> "1.0",
                   header   |-> << << "destination", dest >>,
                                   << "uniqueID", str_uint(uniqueId) >>,
                                   << "generationTime",
                                      [iso |-> times.generation_time, tz |-> timezone] >>,
                                   << "expirationTime",
                                      [iso |-> times.expiration_time, tz |-> timezone] >> >>,
                   service  |-> web_service])

\* what the openssl subprocess leaves on its standard output: the DER
\* envelope of the TRA when it signs, nothing when it reports an error
ToolStdout(tra, tool) == IF tool = "ok" THEN << [der |-> tra] >> ELSE << >>

\* b64encode keeps the empty byte string empty
b64encode(bytes) == [b64 |-> bytes]

\* the unsigned TRA handed back when openssl cannot be started
sign_tra_unsigned_fallback(tra, tool) ==
    IF tool = "missing" THEN Some(b64encode(<< [der |-> tra] >>))
    ELSE Some(b64encode(ToolStdout(tra, tool)))

\* WSAA.sign_tra: None when Popen raises FileNotFoundError, else the
\* Base64 of the standard output; the error stream is not looked at
sign_tra(tra, tool) ==
    IF tool = "missing" THEN None
    ELSE Some(b64encode(ToolStdout(tra, tool)))

\* only None taken as the failure of sign_tra
TruthyNotNone(sign) == sign # None

\* Python truth value of what sign_tra returns: None and b'' are false
Truthy(sign) == sign # None /\ sign[1].b64 # << >>

\* the text of the header element called name
HeaderField(tra, name) ==
    LET i == CHOOSE k \in 1..Len(tra.header) : tra.header[k][1] = name
    IN  tra.header[i][2]

\* --------------------------------------------------- TA, parser and cache
\* A TA document: the elements it contains and their texts
RawXml(present, token, sign, expirationTime) ==
    [present |-> present, token |-> token, sign |-> sign,
     expirationTime |-> expirationTime]

EmptyXml == RawXml({}, "", "", 0)

\* the signature the remote issues together with a token
SignOf(token) == IF token = "AAA" THEN "BBB" ELSE "DDD"

\* the texts of token and sign taken from each other's element
ParseSwapped(raw) ==
    IF Elements \subseteq raw.present
    THEN Some([token |-> raw.sign, sign |-> raw.token,
               expirationTime |-> raw.expirationTime])
    ELSE None

\* the parser that does not look for expirationTime
ParseWithoutExpirationCheck(raw) ==
    IF {"token", "sign"} \subseteq raw.present
    THEN Some([token |-> raw.token, sign |-> raw.sign,
               expirationTime |-> raw.expirationTime])
    ELSE None

\* Response parser: the ticket, or None when an expected element is absent
Parse(raw) ==
    IF Elements \subseteq raw.present
    THEN Some([token |-> raw.token, sign |-> raw.sign,
               expirationTime |-> raw.expirationTime])
    ELSE None

\* a cache file: absent, or holding a document
NoFile == [exists |-> FALSE, content |-> EmptyXml]

\* the document written with the text of its sign element lost
FileSignLost(raw) ==
    [exists |-> TRUE,
     content |-> RawXml(raw.present, raw.token, "", raw.expirationTime)]

\* the file after the raw response was written to it: the same document
File(raw) == [exists |-> TRUE, content |-> raw]

\* a file that was cut short: it does not parse
TruncatedFile == File(RawXml({"token"}, "AAA", "", 0))

\* the margin taken as minutes instead of seconds
UsableMarginInMinutes(ticket, trustedTime) ==
    trustedTime + SafetyMargin * 60 < ticket.expirationTime

\* the margin forgotten: usable until the expiration itself
UsableWithoutMargin(ticket, trustedTime) == trustedTime < ticket.expirationTime

\* cache validity: the ticket is usable while trusted time plus the
\* safety margin is before its expiration
Usable(ticket, trustedTime) == trustedTime + SafetyMargin < ticket.expirationTime

\* ---------------------------------------------------------------- errors
Error(kind, code, message) == [kind |-> kind, code |-> code, message |-> message]
NoError == Error("", "", "")
\* the message main exits with when sign_tra returns a false value
OpensslNotFound == Error("SystemExit", "", "No se encontró el ejecutable openssl")
\* datetime.fromtimestamp(None) in create_tra
TimeSourceFailed == Error("TypeError", "", "")
\* the configuration files the program opens, and what can be wrong with one
ConfigFiles == {"certificate", "private_key", "ca_cert"}
ConfigFaults == {{}} \cup {{file} : file \in ConfigFiles}
FileKinds == {"missing", "unreadable"}

\* the first file of the sequence that is bad, or 0
FirstBad(checked, bad) ==
    IF \E i \in 1..Len(checked) : checked[i] \in bad
    THEN CHOOSE i \in 1..Len(checked) :
             /\ checked[i] \in bad
             /\ \A j \in 1..(i - 1) : checked[j] \notin bad
    ELSE 0

\* main of wsaa.py: certificate, private key and CA bundle, in this order;
\* check_file_exists catches FileNotFoundError only, so an unreadable file
\* ends the program with the PermissionError of open
main_check_files(bad, kind) ==
    LET checked == << "certificate", "private_key", "ca_cert" >>
        message == << "No se encontró el archivo de certificado",
                      "No se encontró el archivo de clave privada",
                      "No se encontró el archivo de CA de AFIP" >>
        i == FirstBad(checked, bad)
    IN  IF i = 0 THEN NoError
        ELSE IF kind = "missing" THEN Error("SystemExit", checked[i], message[i])
        ELSE Error("PermissionError", checked[i], "")

\* check_config: for value in ['certificate', 'private_key']: check_file
check_config(bad, kind) ==
    LET checked == << "certificate", "private_key" >>
        i == FirstBad(checked, bad)
    IN  IF i = 0 THEN NoError
        ELSE Error("ValueError", checked[i],
                   IF kind = "missing"
                   THEN "no se encontró el archivo solicitado"
                   ELSE "el archivo no tiene los permisos requeridos")

\* the message of the fault left out of the error
FaultErrorCodeOnly(error) == Error("ProtocolFault", error.code, "")

\* except exceptions.Fault as error: the code and the message of the fault
\* go into the error the invocation ends with
FaultError(error) == Error("ProtocolFault", error.code, error.message)
Faults == { [code |-> "ns1:CoeEnc", message |-> "CUIT no pertenece a la jurisdicción"],
            [code |-> "ns1:coe.alreadyAuthenticated", message |-> "El CEE ya posee un TA valido"] }

\* ------------------------------------------------------------ cache file
\* OUTPUT_DIR of config.py and the name of the ticket file
OUTPUT_DIR == "data/"
TicketFile == "ta.xml"

\* one path for all the web services
set_output_path_shared(web_service, output_file) ==
    << OUTPUT_DIR, "/", output_file >>

\* WSBase.set_output_path: OUTPUT_DIR + web_service + '/' joined with the
\* file name; output_dir ends with the separator, so os.path.join adds none
set_output_path(web_service, output_file) ==
    LET output_dir == << OUTPUT_DIR, web_service, "/" >>
    IN  output_dir \o << output_file >>

\* the file system entry that the path of the ticket file of a web service
\* names: paths that are equal name the same file
CacheKey(web_service) ==
    CHOOSE k \in WebServices :
        set_output_path(k, TicketFile) = set_output_path(web_service, TicketFile)

\* ----------------------------------------------------------------- state
\* now: the trusted time; cache: the ticket file of each web service;
\* pc, inv: position and local state of each invocation; call: the function
\* call under evaluation when a function is examined on its own
VARIABLES now, cache, pc, inv, call, ws

vars == << now, cache, pc, inv, call, ws >>

\* no function is examined on its own
NoCall == [fn |-> "", arg |-> None, out |-> None]

\* no argument of the command line of ws_sr_padron.py is given
NoCommandLine == [scope |-> "", table |-> "", person |-> << >>]

\* values of a Python dictionary: a str, an int, None, and the mark of a
\* key that the dictionary does not have
PyStr(s) == [t |-> "str", s |-> s, n |-> 0]
PyInt(n) == [t |-> "int", s |-> "", n |-> n]
PyNone == [t |-> "None", s |-> "", n |-> 0]
Absent == [t |-> "absent", s |-> "", n |-> 0]

\* the keys of the configuration dictionary that the query of the census
\* reads or that ws_sr_padron_parser stores
ConfigKeys == {"scope", "table", "person", "alcance", "tabla", "persona"}

\* a dictionary with none of these keys
NoConfig == [key \in ConfigKeys |-> Absent]

\* the local state of one run of a downstream web service: the script
\* (client), where the run entered it (main or the query method), the
\* command line, the configuration dictionary, the name of the query, the
\* response of the health check, the remote operations invoked in order,
\* whether the output file was written, and the exception that ended the
\* run
NewService(client, entry, cmd, config, name, stage) ==
    [client |-> client, entry |-> entry, cmd |-> cmd, config |-> config,
     name |-> name, pc |-> stage, status |-> None, calls |-> << >>,
     output |-> FALSE, err |-> ""]

\* no downstream web service is running
NoService == NewService("", "", NoCommandLine, NoConfig, "", "idle")

\* the local state of one invocation (one process run)
NewInvocation(service, connection, file, bad) ==
    [service |-> service, connection |-> connection, cache0 |-> file,
     bad |-> bad,
     tra |-> None, tool |-> "", cms |-> None, raw |-> None, ticket |-> None,
     fault |-> None, result |-> None, err |-> NoError, steps |-> << >>,
     checkTime |-> None, retTime |-> None]

Idle == NewInvocation("", "", NoFile, {})

Init ==
    /\ now \in StartTimes
    /\ ws = NoService
    /\ cache \in [WebServices -> {NoFile, TruncatedFile}]
    /\ pc = [p \in Procs |-> "idle"]
    /\ inv = [p \in Procs |-> Idle]
    /\ call = NoCall

Step(p, name) == Append(inv[p].steps, name)

\* the design assumes at most one invocation at a time on a machine
NoOtherRunning(p) == \A q \in Procs \ {p} : pc[q] = "idle"

\* the outcome of the configuration check: the invocation ends with the
\* error, or goes on to get_ticket
ConfigChecked(p, error) ==
    IF error = NoError
    THEN /\ pc' = [pc EXCEPT ![p] = "check"]
         /\ UNCHANGED inv
    ELSE /\ pc' = [pc EXCEPT ![p] = "failed"]
         /\ inv' = [inv EXCEPT ![p].err = error]

\* a process is launched for a web service; at most one of its
\* configuration files is missing or unreadable
Start(p) ==
    /\ pc[p] = "idle"
    /\ NoOtherRunning(p)
    /\ \E service \in WebServices, connection \in Connections, bad \in ConfigFaults :
          inv' = [inv EXCEPT ![p] = NewInvocation(service, connection, cache[CacheKey(service)], bad)]
    /\ pc' = [pc EXCEPT ![p] = "config"]
    /\ UNCHANGED << now, cache, call, ws >>

\* the configuration is checked by the entry point of the program: main of
\* wsaa.py, or get_config_data, which the web service clients call before
\* wsaa.get_ticket()
CheckConfig(p) ==
    /\ pc[p] = "config"
    /\ \E kind \in FileKinds :
          \/ ConfigChecked(p, main_check_files(inv[p].bad, kind))
          \/ ConfigChecked(p, check_config(inv[p].bad, kind))
    /\ UNCHANGED << now, cache, call, ws >>

\* a cache file that does not parse ends the invocation
CheckCacheCorruptFatal(p) ==
    /\ pc[p] = "check"
    /\ LET file   == cache[CacheKey(inv[p].service)]
           ticket == IF file.exists THEN Parse(file.content) ELSE None
       IN  IF file.exists /\ ticket = None
           THEN /\ inv' = [inv EXCEPT ![p].checkTime = Some(now),
                                      ![p].err = Error("CacheCorrupt", "", ""),
                                      ![p].steps = Step(p, "nocache")]
                /\ pc' = [pc EXCEPT ![p] = "failed"]
           ELSE IF ticket # None /\ Usable(ticket[1], now)
           THEN /\ inv' = [inv EXCEPT ![p].ticket = ticket,
                                      ![p].result = ticket,
                                      ![p].checkTime = Some(now),
                                      ![p].retTime = Some(now),
                                      ![p].steps = Step(p, "cache")]
                /\ pc' = [pc EXCEPT ![p] = "done"]
           ELSE /\ inv' = [inv EXCEPT ![p].checkTime = Some(now),
                                      ![p].steps = Step(p, "nocache")]
                /\ pc' = [pc EXCEPT ![p] = "build"]
    /\ UNCHANGED << now, cache, call, ws >>

\* get_ticket, first part: read the cache file of the service and judge it
\* against the trusted time
CheckCache(p) ==
    /\ pc[p] = "check"
    /\ LET file   == cache[CacheKey(inv[p].service)]
           ticket == IF file.exists THEN Parse(file.content) ELSE None
       IN  IF ticket # None /\ Usable(ticket[1], now)
           THEN /\ inv' = [inv EXCEPT ![p].ticket = ticket,
                                      ![p].result = ticket,
                                      ![p].checkTime = Some(now),
                                      ![p].retTime = Some(now),
                                      ![p].steps = Step(p, "cache")]
                /\ pc' = [pc EXCEPT ![p] = "done"]
           ELSE /\ inv' = [inv EXCEPT ![p].checkTime = Some(now),
                                      ![p].steps = Step(p, "nocache")]
                /\ pc' = [pc EXCEPT ![p] = "build"]
    /\ UNCHANGED << now, cache, call, ws >>

\* main: ticket = wsaa.create_tra(); the time server answers or not
BuildTRA(p) ==
    /\ pc[p] = "build"
    /\ \E timestamp \in {None} \cup {Some(now * 1000 + f) : f \in Fractions},
          uniqueId \in UniqueIds :
          LET tra == create_tra(inv[p].connection, inv[p].service, timestamp, uniqueId)
          IN  IF tra = None
              THEN /\ inv' = [inv EXCEPT ![p].err = TimeSourceFailed,
                                         ![p].steps = Step(p, "build")]
                   /\ pc' = [pc EXCEPT ![p] = "failed"]
              ELSE /\ inv' = [inv EXCEPT ![p].tra = tra,
                                         ![p].steps = Step(p, "build")]
                   /\ pc' = [pc EXCEPT ![p] = "sign"]
    /\ UNCHANGED << now, cache, call, ws >>

\* main: sign = wsaa.sign_tra(ticket); if not sign: raise SystemExit(...)
SignTRA(p) ==
    /\ pc[p] = "sign"
    /\ \E tool \in ToolStates :
          LET sign == sign_tra(inv[p].tra[1], tool)
          IN  IF ~Truthy(sign)
              THEN /\ inv' = [inv EXCEPT ![p].tool = tool,
                                         ![p].err = OpensslNotFound,
                                         ![p].steps = Step(p, "sign")]
                   /\ pc' = [pc EXCEPT ![p] = "failed"]
              ELSE /\ inv' = [inv EXCEPT ![p].tool = tool,
                                         ![p].cms = sign,
                                         ![p].steps = Step(p, "sign")]
                   /\ pc' = [pc EXCEPT ![p] = "submit"]
    /\ UNCHANGED << now, cache, call, ws >>

\* Ticket transport: loginCms answers with a TA, with a fault, or the
\* connection fails; without a CA bundle the TLS session is never validated
Submit(p) ==
    /\ pc[p] = "submit"
    /\ \/ \E token \in Tokens, off \in ExpOffsets, missing \in {{}, {"sign"}} :
             /\ "ca_cert" \notin inv[p].bad
             /\ inv' = [inv EXCEPT
                    ![p].raw = Some(RawXml(Elements \ missing, token,
                                           IF "sign" \in missing THEN "" ELSE SignOf(token),
                                           now + off)),
                    ![p].steps = Step(p, "submit")]
             /\ pc' = [pc EXCEPT ![p] = "parse"]
       \/ \E fault \in Faults :
             /\ "ca_cert" \notin inv[p].bad
             /\ inv' = [inv EXCEPT
                    ![p].fault = Some(fault),
                    ![p].err = FaultError(fault),
                    ![p].steps = Step(p, "submit")]
             /\ pc' = [pc EXCEPT ![p] = "failed"]
       \/ /\ inv' = [inv EXCEPT ![p].err = Error("TransportError", "", ""),
                                ![p].steps = Step(p, "submit")]
          /\ pc' = [pc EXCEPT ![p] = "failed"]
    /\ UNCHANGED << now, cache, call, ws >>

\* Response parser applied to the raw response
ParseResponse(p) ==
    /\ pc[p] = "parse"
    /\ LET ticket == Parse(inv[p].raw[1])
       IN  IF ticket = None
           THEN /\ inv' = [inv EXCEPT ![p].err = Error("ParseError", "", ""),
                                      ![p].steps = Step(p, "parse")]
                /\ pc' = [pc EXCEPT ![p] = "failed"]
           ELSE /\ inv' = [inv EXCEPT ![p].ticket = ticket,
                                      ![p].steps = Step(p, "parse")]
                /\ pc' = [pc EXCEPT ![p] = "issue"]
    /\ UNCHANGED << now, cache, call, ws >>

\* the cache file written only when there is none yet
IssueKeepExisting(p) ==
    /\ pc[p] = "issue"
    /\ cache' = [cache EXCEPT ![CacheKey(inv[p].service)] =
                    IF cache[CacheKey(inv[p].service)].exists
                    THEN cache[CacheKey(inv[p].service)]
                    ELSE File(inv[p].raw[1])]
    /\ inv' = [inv EXCEPT ![p].result = inv[p].ticket,
                          ![p].retTime = Some(now),
                          ![p].steps = Step(p, "write")]
    /\ pc' = [pc EXCEPT ![p] = "done"]
    /\ UNCHANGED << now, call, ws >>

\* Issued: the raw response overwrites the cache file of the service and
\* the credentials are returned
Issue(p) ==
    /\ pc[p] = "issue"
    /\ cache' = [cache EXCEPT ![CacheKey(inv[p].service)] = File(inv[p].raw[1])]
    /\ inv' = [inv EXCEPT ![p].result = inv[p].ticket,
                          ![p].retTime = Some(now),
                          ![p].steps = Step(p, "write")]
    /\ pc' = [pc EXCEPT ![p] = "done"]
    /\ UNCHANGED << now, call, ws >>

\* the process that removes the ticket file of its service when it failed
ExitRemovingFile(p) ==
    /\ pc[p] \in {"done", "failed"}
    /\ pc' = [pc EXCEPT ![p] = "idle"]
    /\ inv' = [inv EXCEPT ![p] = Idle]
    /\ cache' = IF pc[p] = "failed"
                THEN [cache EXCEPT ![CacheKey(inv[p].service)] = NoFile]
                ELSE cache
    /\ UNCHANGED << now, call, ws >>

\* the process ends; nothing of it stays in memory
Exit(p) ==
    /\ pc[p] \in {"done", "failed"}
    /\ pc' = [pc EXCEPT ![p] = "idle"]
    /\ inv' = [inv EXCEPT ![p] = Idle]
    /\ UNCHANGED << now, cache, call, ws >>

\* a second passes
Tick ==
    /\ \E s \in StartTimes : s <= now /\ now < s + MaxTicks
    /\ now' = now + 1
    /\ UNCHANGED << cache, pc, inv, call, ws >>

Next ==
    \/ \E p \in Procs :
          \/ Start(p)
          \/ CheckConfig(p)
          \/ CheckCache(p)
          \/ BuildTRA(p)
          \/ SignTRA(p)
          \/ Submit(p)
          \/ ParseResponse(p)
          \/ Issue(p)
          \/ Exit(p)
    \/ Tick

Spec == Init /\ [][Next]_vars

\* ------------------------------------------------ concurrent invocations
\* Two processes launched for the same web service at the same time, which
\* the design leaves to the environment to prevent
Racers == {1, 2}
RaceService == "wsfev1"

InitRace ==
    /\ now = 0
    /\ ws = NoService
    /\ cache = [s \in WebServices |-> NoFile]
    /\ pc = [p \in Procs |-> "idle"]
    /\ inv = [p \in Procs |-> Idle]
    /\ call = NoCall

\* a process is launched whatever the other one is doing
StartRace(p) ==
    /\ pc[p] = "idle"
    /\ inv' = [inv EXCEPT ![p] = NewInvocation(RaceService, "test", cache[CacheKey(RaceService)], {})]
    /\ pc' = [pc EXCEPT ![p] = "config"]
    /\ UNCHANGED << now, cache, call, ws >>

NextRace ==
    \E p \in Racers :
        \/ StartRace(p)
        \/ CheckConfig(p)
        \/ CheckCache(p)
        \/ BuildTRA(p)
        \/ SignTRA(p)
        \/ Submit(p)
        \/ ParseResponse(p)
        \/ Issue(p)

SpecRace == InitRace /\ [][NextRace]_vars

\* ----------------------------------------------------------- time source
\* ntp_server_tuple of ntp_time
ntp_server_tuple == << "ar.pool.ntp.org", "south-america.pool.ntp.org" >>

\* the server get_datetime asks first
AfipTimeServer == "afip.time.gob.ar"
TimeServers == {AfipTimeServer, "ar.pool.ntp.org", "south-america.pool.ntp.org"}

\* what a server sends when it answers: client.request(server).tx_time
TxTime(server) ==
    IF server = AfipTimeServer THEN 1001
    ELSE IF server = "ar.pool.ntp.org" THEN 1002 ELSE 1003

\* a server answers, or client.request raises NTPException or gaierror
ServerAnswers == { answer \in [TimeServers -> {None} \cup {Some(t) : t \in 1001..1003}] :
                     \A server \in TimeServers : answer[server] \in {None, Some(TxTime(server))} }

\* if not timestamp
NoTimestamp(timestamp) == timestamp = None \/ timestamp[1] = 0

\* for server in ntp_server_tuple: try ... except ... else: break
RECURSIVE RequestInTurn(_, _, _)
RequestInTurn(servers, answer, queried) ==
    IF servers = << >>
    THEN [timestamp |-> None, queried |-> queried]
    ELSE IF answer[Head(servers)] # None
         THEN [timestamp |-> answer[Head(servers)],
               queried |-> Append(queried, Head(servers))]
         ELSE RequestInTurn(Tail(servers), answer, Append(queried, Head(servers)))

\* the time source that puts the local clock in the place of a failure
ntp_time_or_local(ntp_server, answer) ==
    LET first == IF ntp_server # "" THEN answer[ntp_server] ELSE None
        asked == IF ntp_server # "" THEN << ntp_server >> ELSE << >>
        found == IF NoTimestamp(first)
                 THEN RequestInTurn(ntp_server_tuple, answer, asked)
                 ELSE [timestamp |-> first, queried |-> asked]
    IN  IF found.timestamp = None THEN [found EXCEPT !.timestamp = Some(1000)] ELSE found

\* ntp_time: the timestamp, or None, and the servers that were queried
ntp_time(ntp_server, answer) ==
    LET first == IF ntp_server # "" THEN answer[ntp_server] ELSE None
        asked == IF ntp_server # "" THEN << ntp_server >> ELSE << >>
    IN  IF NoTimestamp(first)
        THEN RequestInTurn(ntp_server_tuple, answer, asked)
        ELSE [timestamp |-> first, queried |-> asked]

\* the local clock: datetime.now().timestamp(), in milliseconds
LocalClocks == {5999, 7000}

\* timestamp_to_datetime: the local date and time of the timestamp without
\* its fraction of a second, in seconds
timestamp_to_datetime(timestamp) == (timestamp \div 1000) + LocalOffsetMinutes * 60

\* the date and time without the fallback to the local clock
get_datetime_no_fallback(source, answer, localClock) ==
    LET timestamp == ntp_time(source, answer).timestamp
    IN  IF ~NoTimestamp(timestamp) THEN Some(timestamp_to_datetime(timestamp[1]))
        ELSE None

\* get_datetime: the time of the time server, or of the local clock when no
\* server answered
get_datetime(source, answer, localClock) ==
    LET fromServer == ntp_time(source, answer).timestamp
        timestamp  == IF NoTimestamp(fromServer) THEN Some(localClock) ELSE fromServer
    IN  IF ~NoTimestamp(timestamp) THEN Some(timestamp_to_datetime(timestamp[1]))
        ELSE None

\* ------------------------------------------------------ downstream services
\* the components the dummy operation of a web service reports on, and what
\* it reports
Components == {"appserver", "authserver", "dbserver"}
ComponentStates == {"OK", "ok", "ERROR"}
DummyResponses == [Components -> ComponentStates]

\* the health check that looks at the application server only
dummy_appserver_only(response) == response["appserver"] # "OK"

\* WSBase.dummy: for value in status.values(): if value != 'OK': return True
dummy(response) == \E key \in DOMAIN response : response[key] # "OK"

\* WSSRPADRONA4.__dummy: server_down is set for every value that is not 'OK'
a4_dummy(response) ==
    LET down == { key \in DOMAIN response : response[key] # "OK" }
    IN  down # {}

\* ----------------------------------------------------------------- CUIT
\* base of both validators
base == << 5, 4, 3, 2, 7, 6, 5, 4, 3, 2 >>

IsDigit(c) == c \in {"0", "1", "2", "3", "4", "5", "6", "7", "8", "9"}

\* sum([int(cuit[i]) * base[i] for i in range(10)])
RECURSIVE list_sum(_, _)
list_sum(cuit, n) ==
    IF n = 0 THEN 0 ELSE list_sum(cuit, n - 1) + DigitVal(cuit[n]) * base[n]

\* the check digit: 11 - sum mod 11, with 11 taken as 0 and 10 as 9
Checker(cuit) ==
    LET checker == 11 - (list_sum(cuit, 10) - ((list_sum(cuit, 10) \div 11) * 11))
    IN  IF checker = 11 THEN 0 ELSE IF checker = 10 THEN 9 ELSE checker

\* libs.validation.check_cuit: "True", or the ValueError it raises; the
\* 13 character form is rebuilt as cuit[:2] + cuit[3:11] + cuit[:-1]
check_cuit(cuit) ==
    IF cuit = << >> THEN "ValueError"
    ELSE IF Len(cuit) # 13 /\ Len(cuit) # 11 THEN "ValueError"
    ELSE LET plain == IF Len(cuit) = 13
                      THEN SubSeq(cuit, 1, 2) \o SubSeq(cuit, 4, 11) \o SubSeq(cuit, 1, 12)
                      ELSE cuit
         IN  IF \E i \in 1..10 : ~IsDigit(plain[i]) THEN "ValueError"
             ELSE IF << Digit(Checker(plain)) >> # << plain[11] >> THEN "ValueError"
             ELSE "True"

\* the validator without the rule that takes 10 as 9
functions_check_cuit_no_ten(cuit) ==
    IF Len(cuit) # 11 THEN "False"
    ELSE IF \E i \in 1..11 : ~IsDigit(cuit[i]) THEN "ValueError"
    ELSE LET verificador == 11 - (list_sum(cuit, 10) % 11)
         IN  IF (IF verificador = 11 THEN 0 ELSE verificador) = DigitVal(cuit[11])
             THEN "True" ELSE "False"

\* functions.validation.check_cuit: "True" or "False"; int() of a character
\* that is no digit raises ValueError
functions_check_cuit(cuit) ==
    IF Len(cuit) # 11 THEN "False"
    ELSE IF \E i \in 1..11 : ~IsDigit(cuit[i]) THEN "ValueError"
    ELSE IF Checker(cuit) = DigitVal(cuit[11]) THEN "True" ELSE "False"

\* --------------------------------------------------------- command line
\* ws_sr_padron_parser: the scopes and the tables of scope 100
scope == {"4", "5", "10", "100"}
a100_collections ==
    {"SUPA.E_ORGANISMO_INFORMANTE", "SUPA.TIPO_EMPRESA_JURIDICA", "SUPA.E_PROVINCIA",
     "SUPA.TIPO_DATO_ADICIONAL_DOMICILIO", "PUC_PARAM.T_TIPO_LINEA_TELEFONICA",
     "SUPA.TIPO_TELEFONO", "SUPA.TIPO_COMPONENTE_SOCIEDAD", "SUPA.TIPO_EMAIL",
     "SUPA.TIPO_DOMICILIO", "SUPA.E_ACTIVIDAD", "PUC_PARAM.T_CALLE",
     "PUC_PARAM.T_LOCALIDAD"}

\* A command line of ws_sr_padron.py: the values of --alcance, --tabla and
\* --persona; "" and the empty sequence stand for an argument not given
\* parser.parse_known_args() with the arguments of ws_sr_padron_parser:
\* --alcance is required and checked against scope, --persona is checked by
\* check_cuit, --tabla against a100_collections, and exactly one of
\* --persona and --tabla must be given
parse_known_args(cmd) ==
    IF cmd.scope \notin scope THEN "error"
    ELSE IF cmd.person # << >> /\ check_cuit(cmd.person) # "True" THEN "error"
    ELSE IF cmd.table # "" /\ cmd.table \notin a100_collections THEN "error"
    ELSE IF cmd.person # << >> /\ cmd.table # "" THEN "error"
    ELSE IF cmd.person = << >> /\ cmd.table = "" THEN "error"
    ELSE "ok"

\* the validation that lets a person be asked of scope 100
check_parser_person_any_scope(cmd) ==
    IF parse_known_args(cmd) = "error" THEN "error"
    ELSE IF cmd.scope # "100" /\ cmd.table # "" THEN "error"
    ELSE IF cmd.scope # "100" /\ cmd.person = << >> THEN "error"
    ELSE "ok"

\* check_parser for args.prog == 'ws_sr_padron.py': "ok" when vars(args) is
\* returned, "error" when parser.error ends the program
check_parser(cmd) ==
    IF parse_known_args(cmd) = "error" THEN "error"
    ELSE IF \/ cmd.scope = "100" /\ cmd.table = ""
            \/ cmd.scope # "100" /\ cmd.table # ""
         THEN "error"
    ELSE IF \/ cmd.scope = "100" /\ cmd.person # << >>
            \/ cmd.scope # "100" /\ cmd.person = << >>
         THEN "error"
    ELSE "ok"

\* ---------------------------------------------------- nested dictionaries
\* A value of a serialized response: a datetime ("dt", in milliseconds), a
\* string ("str"), an integer ("int"), a dictionary ("dict") or a list
\* ("list"); the kids of a dictionary are its items in order, key and
\* value, the kids of a list its elements, with an empty key
Atom(t, v) == [t |-> t, v |-> v, kids |-> << >>]
Entry(key, val) == [key |-> key, val |-> val]
DictOf(entries) == [t |-> "dict", v |-> 0, kids |-> entries]
ListOf(values) ==
    [t |-> "list", v |-> 0, kids |-> [i \in 1..Len(values) |-> Entry("", values[i])]]

\* datetime_to_string: isoformat of the datetime without microseconds
datetime_to_string(item) == Atom("str", item.v \div 1000)

\* map_nested_dicts(data, datetime_to_string, datetime): the dictionary
\* after the call. For a list the loop recurses into its dictionaries and,
\* for an element of data_type, assigns function(value) to data[key], so
\* that the list is replaced by the conversion of its last such element
RECURSIVE map_nested_dicts(_)
map_nested_dicts(data) ==
    LET in_list(value) ==
            IF value.t = "dict" THEN map_nested_dicts(value) ELSE value
        of_list(item) ==
            LET hits == { i \in 1..Len(item.kids) : item.kids[i].val.t = "dt" }
                last == CHOOSE i \in hits : \A j \in hits : j <= i
            IN  IF hits = {}
                THEN [item EXCEPT !.kids = [i \in 1..Len(item.kids) |->
                                               Entry("", in_list(item.kids[i].val))]]
                ELSE datetime_to_string(item.kids[last].val)
        of_item(item) ==
            IF item.t = "dict" THEN map_nested_dicts(item)
            ELSE IF item.t = "list" THEN of_list(item)
            ELSE IF item.t = "dt" THEN datetime_to_string(item)
            ELSE item
    IN  [data EXCEPT !.kids = [i \in 1..Len(data.kids) |->
                                  Entry(data.kids[i].key, of_item(data.kids[i].val))]]

\* ------------------------------------------- functions on their own
\* A call has the name of the function, its argument and, once the
\* function was applied, its result
Call(fn, arg) == [fn |-> fn, arg |-> arg, out |-> None]

\* documents with every subset of the three elements
ParseCalls ==
    { Call("Parse", RawXml(present,
                           IF "token" \in present THEN token ELSE "",
                           IF "sign" \in present THEN SignOf(token) ELSE "",
                           IF "expirationTime" \in present THEN exp ELSE 0)) :
        present \in SUBSET Elements, token \in Tokens, exp \in {1, SafetyMargin + 1} }

\* with and without a primary server, every combination of answering servers
NtpTimeCalls ==
    { Call("ntp_time", [ntp_server |-> ntp_server, answer |-> answer]) :
        ntp_server \in {"", AfipTimeServer}, answer \in ServerAnswers }

ApplyNtpTime ==
    /\ call.fn = "ntp_time"
    /\ call.out = None
    /\ call' = [call EXCEPT !.out = Some(ntp_time(call.arg.ntp_server, call.arg.answer))]
    /\ UNCHANGED << now, cache, pc, inv, ws >>

\* local offsets from UTC, in whole minutes, from UTC-12:00 to UTC+14:00
OffsetsMinutes == (0 - MaxMinutesWest)..MaxMinutesEast

TimezoneCalls ==
    { Call("get_timezone", [offsetMinutes |-> m]) : m \in OffsetsMinutes }

ApplyGetTimezone ==
    /\ call.fn = "get_timezone"
    /\ call.out = None
    /\ call' = [call EXCEPT !.out = Some(get_timezone(call.arg.offsetMinutes))]
    /\ UNCHANGED << now, cache, pc, inv, ws >>

\* draws of random.randint(0, 4294967295) with one draw too many
RandIntsOneTooMany ==
    { [hi |-> 0, lo |-> 0], [hi |-> 0, lo |-> 10], [hi |-> 1, lo |-> 0],
      [hi |-> 15258, lo |-> 51712], [hi |-> MaxHalf, lo |-> MaxHalf],
      [hi |-> MaxHalf + 1, lo |-> 0] }

\* draws of random.randint(0, 4294967295): 0, 10, 65536, 1000000000 and
\* 4294967295
RandInts ==
    { [hi |-> 0, lo |-> 0], [hi |-> 0, lo |-> 10], [hi |-> 1, lo |-> 0],
      [hi |-> 15258, lo |-> 51712], [hi |-> MaxHalf, lo |-> MaxHalf] }

\* the DN of the requester in the configuration, when there is one
SourceDNs == {"", "serialNumber=CUIT 20000000001,cn=recepy"}

\* create_tra for every connection value, with and without an answer of
\* the time server
CreateTraCalls ==
    { Call("create_tra", [connection |-> connection, web_service |-> web_service,
                          timestamp |-> timestamp, uniqueId |-> uniqueId, dn |-> dn]) :
        connection \in Connections \cup {"homo", ""}, web_service \in WebServices,
        timestamp \in {None, Some(0), Some(1500)}, uniqueId \in RandInts,
        dn \in SourceDNs }

ApplyCreateTra ==
    /\ call.fn = "create_tra"
    /\ call.out = None
    /\ call' = [call EXCEPT !.out = Some(create_tra(call.arg.connection,
                                                    call.arg.web_service,
                                                    call.arg.timestamp,
                                                    call.arg.uniqueId))]
    /\ UNCHANGED << now, cache, pc, inv, ws >>

DummyCalls == { Call("dummy", [response |-> r]) : r \in DummyResponses }

\* the same response given to the health check of WSBase and to the one of
\* ws_sr_padron_a4
ApplyDummy ==
    /\ call.fn = "dummy"
    /\ call.out = None
    /\ call' = [call EXCEPT !.out = Some([dummy |-> dummy(call.arg.response),
                                          a4_dummy |-> a4_dummy(call.arg.response)])]
    /\ UNCHANGED << now, cache, pc, inv, ws >>

\* the first ten digits of some CUITs: check digits 6 and 9, a sum that
\* leaves 1 (check digit 10, taken as 9), a sum that leaves 0 (11, taken as
\* 0), and a check digit equal to the first digit
CuitPrefixes ==
    { << 2, 0, 1, 2, 3, 4, 5, 6, 7, 8 >>, << 3, 3, 6, 9, 3, 4, 5, 0, 2, 3 >>,
      << 2, 0, 0, 0, 0, 0, 0, 0, 0, 1 >>, << 2, 0, 0, 0, 0, 0, 0, 0, 0, 6 >>,
      << 2, 0, 0, 0, 0, 0, 0, 0, 0, 5 >> }

\* xxyyyyyyyyz
PlainCuit(digits) == [i \in 1..11 |-> Digit(digits[i])]

\* xx-yyyyyyyy-z
HyphenatedCuit(digits) ==
    LET plain == PlainCuit(digits)
    IN  SubSeq(plain, 1, 2) \o << "-" >> \o SubSeq(plain, 3, 10) \o << "-" >>
            \o SubSeq(plain, 11, 11)

\* every prefix with every last digit, in both formats
CheckCuitCalls ==
    { Call("check_cuit", [digits |-> Append(prefix, z), hyphenated |-> h]) :
        prefix \in CuitPrefixes, z \in 0..9, h \in BOOLEAN }

\* both validators applied to the same text
ApplyCheckCuit ==
    /\ call.fn = "check_cuit"
    /\ call.out = None
    /\ LET cuit == IF call.arg.hyphenated THEN HyphenatedCuit(call.arg.digits)
                   ELSE PlainCuit(call.arg.digits)
       IN  call' = [call EXCEPT !.out = Some([libs |-> check_cuit(cuit),
                                              functions |-> functions_check_cuit(cuit)])]
    /\ UNCHANGED << now, cache, pc, inv, ws >>

\* command lines with every scope, an unknown scope and none; a table, an
\* unknown table and none; a CUIT, a CUIT with a wrong check digit and none
CommandLines ==
    { [scope |-> sc, table |-> t, person |-> pe] :
        sc \in scope \cup {"", "7"},
        t \in {"", "SUPA.E_PROVINCIA", "PUC_PARAM.T_CALLE", "SUPA.E_NADA"},
        pe \in {<< >>, PlainCuit(<< 2, 0, 1, 2, 3, 4, 5, 6, 7, 8, 6 >>),
                PlainCuit(<< 2, 0, 1, 2, 3, 4, 5, 6, 7, 8, 7 >>)} }

CheckParserCalls == { Call("check_parser", cmd) : cmd \in CommandLines }

ApplyCheckParser ==
    /\ call.fn = "check_parser"
    /\ call.out = None
    /\ call' = [call EXCEPT !.out = Some(check_parser(call.arg))]
    /\ UNCHANGED << now, cache, pc, inv, ws >>

GetDatetimeCalls ==
    { Call("get_datetime", [source |-> source, answer |-> answer, localClock |-> clock]) :
        source \in {"", AfipTimeServer}, answer \in ServerAnswers, clock \in LocalClocks }

ApplyGetDatetime ==
    /\ call.fn = "get_datetime"
    /\ call.out = None
    /\ call' = [call EXCEPT !.out = Some(get_datetime(call.arg.source, call.arg.answer,
                                                      call.arg.localClock))]
    /\ UNCHANGED << now, cache, pc, inv, ws >>

\* dictionaries with two items, each a datetime, an integer, a dictionary
\* or a list of up to two datetimes, integers and dictionaries
Atoms == {Atom("dt", 1500), Atom("dt", 2500), Atom("int", 7)}
InnerDicts == { DictOf(<< Entry("x", a) >>) : a \in Atoms }
Lists ==
    {ListOf(<< >>)} \cup { ListOf(<< a >>) : a \in Atoms \cup InnerDicts }
        \cup { ListOf(<< a, b >>) : a, b \in Atoms \cup InnerDicts }
Items == Atoms \cup InnerDicts \cup Lists

MapNestedDictsCalls ==
    { Call("map_nested_dicts", DictOf(<< Entry("a", x), Entry("b", y) >>)) :
        x \in Items, y \in Items }

ApplyMapNestedDicts ==
    /\ call.fn = "map_nested_dicts"
    /\ call.out = None
    /\ call' = [call EXCEPT !.out = Some(map_nested_dicts(call.arg))]
    /\ UNCHANGED << now, cache, pc, inv, ws >>

ApplyParse ==
    /\ call.fn = "Parse"
    /\ call.out = None
    /\ call' = [call EXCEPT !.out = Some(Parse(call.arg))]
    /\ UNCHANGED << now, cache, pc, inv, ws >>

InitPure ==
    /\ now = 0
    /\ ws = NoService
    /\ cache = [s \in WebServices |-> NoFile]
    /\ pc = [p \in Procs |-> "idle"]
    /\ inv = [p \in Procs |-> Idle]
    /\ \/ call \in ParseCalls
       \/ call \in NtpTimeCalls
       \/ call \in TimezoneCalls
       \/ call \in CreateTraCalls
       \/ call \in DummyCalls
       \/ call \in CheckCuitCalls
       \/ call \in CheckParserCalls
       \/ call \in GetDatetimeCalls
       \/ call \in MapNestedDictsCalls

NextPure ==
    \/ ApplyParse
    \/ ApplyNtpTime
    \/ ApplyGetTimezone
    \/ ApplyCreateTra
    \/ ApplyDummy
    \/ ApplyCheckCuit
    \/ ApplyCheckParser
    \/ ApplyGetDatetime
    \/ ApplyMapNestedDicts

SpecPure == InitPure /\ [][NextPure]_vars

\* ------------------------------------------------ downstream web services
\* the scripts that query a web service of AFIP with the ticket
Clients == {"ws_sr_padron", "ws_sr_padron_a4", "wsfe"}

\* the text of a sequence of characters
RECURSIVE Text(_)
Text(chars) == IF chars = << >> THEN "" ELSE Head(chars) \o Text(Tail(chars))

\* vars(args) of ws_sr_padron_parser in the configuration dictionary
\* ({**CONFIG, **args}): --alcance is stored under 'scope', --persona under
\* 'person' and --tabla under 'table', each as the text that was given, and
\* an argument that was not given is None
get_config_data(cmd) ==
    [key \in ConfigKeys |->
        IF key = "scope" THEN PyStr(cmd.scope)
        ELSE IF key = "table"
             THEN IF cmd.table = "" THEN PyNone ELSE PyStr(cmd.table)
        ELSE IF key = "person"
             THEN IF cmd.person = << >> THEN PyNone ELSE PyStr(Text(cmd.person))
        ELSE Absent]

\* dictionaries that a caller of get_census_data builds with the keys the
\* method reads
CallerConfigs ==
    { [key \in ConfigKeys |->
          IF key = "alcance" THEN PyInt(100)
          ELSE IF key = "tabla" THEN PyStr("SUPA.E_PROVINCIA") ELSE Absent],
      [key \in ConfigKeys |->
          IF key = "alcance" THEN PyInt(5)
          ELSE IF key = "persona" THEN PyStr("20123456786") ELSE Absent] }

\* key in dictionary
HasKey(dictionary, key) == dictionary[key] # Absent

\* method = 'tabla' if config_data['alcance'] == 100 else 'persona'
select_method(config_data) ==
    IF ~HasKey(config_data, "alcance") THEN "KeyError"
    ELSE IF config_data["alcance"] = PyInt(100) THEN "tabla"
    ELSE "persona"

\* __request_param: the method of every option
methods ==
    [comprobante |-> "FEParamGetTiposCbte",
     concepto |-> "FEParamGetTiposConcepto",
     documento |-> "FEParamGetTiposDoc",
     iva |-> "FEParamGetTiposIva",
     monedas |-> "FEParamGetTiposMonedas",
     opcional |-> "FEParamGetTiposOpcional",
     tributos |-> "FEParamGetTiposTributos",
     puntos_venta |-> "FEParamGetPtosVenta",
     cotizacion |-> "FEParamGetCotizacion",
     tipos_paises |-> "FEParamGetTiposPaises"]

\* the names a query method is called with: the two methods of the census
\* and another name, no name for get_taxpayer, the options of wsfe and
\* another option
QueryNames(client) ==
    IF client = "ws_sr_padron" THEN {"persona", "tabla", "otro"}
    ELSE IF client = "ws_sr_padron_a4" THEN {""}
    ELSE DOMAIN methods \cup {"otro"}

\* the dictionaries a query method runs with
QueryConfigs(client) ==
    IF client = "ws_sr_padron"
    THEN { get_config_data(cmd) : cmd \in { c \in CommandLines : check_parser(c) = "ok" } }
            \cup CallerConfigs
    ELSE {NoConfig}

\* the operation of the health check: self.dummy(), client.service.dummy()
\* and self.dummy('FEDummy')
DummyName(client) == IF client = "wsfe" THEN "FEDummy" ELSE "dummy"

\* the run ends with an exception
Failed(error) == [ws EXCEPT !.pc = "failed", !.err = error]

\* the remote operation is invoked and answers or raises a Fault
Invoked(operation) ==
    { [ws EXCEPT !.calls = Append(@, operation), !.pc = "write"],
      [ws EXCEPT !.calls = Append(@, operation), !.pc = "failed", !.err = "Fault"] }

InitService ==
    /\ now = 0
    /\ ws = NoService
    /\ cache = [s \in WebServices |-> NoFile]
    /\ pc = [p \in Procs |-> "idle"]
    /\ inv = [p \in Procs |-> Idle]
    /\ call = NoCall

\* ws_sr_padron.py main up to the ticket: cli_parser ends the program with
\* parser.error when check_parser refuses the command line
LaunchMain ==
    /\ ws.pc = "idle"
    /\ \E cmd \in CommandLines :
          ws' = IF check_parser(cmd) = "ok"
                THEN NewService("ws_sr_padron", "main", cmd, get_config_data(cmd), "", "main")
                ELSE NewService("ws_sr_padron", "main", cmd, NoConfig, "", "failed")
    /\ UNCHANGED << now, cache, pc, inv, call >>

\* main: the method of the query is chosen and get_census_data is called
SelectMethod ==
    /\ ws.pc = "main"
    /\ LET method == select_method(ws.config)
       IN  ws' = IF method = "KeyError" THEN Failed("KeyError")
                 ELSE [ws EXCEPT !.name = method, !.pc = "dummy"]
    /\ UNCHANGED << now, cache, pc, inv, call >>

\* get_census_data, get_taxpayer or __request_param is called
LaunchMethod ==
    /\ ws.pc = "idle"
    /\ \E client \in Clients :
          \E name \in QueryNames(client), config \in QueryConfigs(client) :
             ws' = NewService(client, "method", NoCommandLine, config, name, "dummy")
    /\ UNCHANGED << now, cache, pc, inv, call >>

\* the health check that does not stop the run
HealthCheckNotEnforced ==
    /\ ws.pc = "dummy"
    /\ IF ws.client = "wsfe" /\ ws.name \notin DOMAIN methods
       THEN ws' = Failed("SystemExit")
       ELSE \/ \E response \in DummyResponses :
                 ws' = [ws EXCEPT !.calls = Append(@, DummyName(ws.client)),
                                  !.status = Some(response),
                                  !.pc = "call"]
            \/ ws' = [ws EXCEPT !.calls = Append(@, DummyName(ws.client)),
                                !.pc = "failed", !.err = "Fault"]
    /\ UNCHANGED << now, cache, pc, inv, call >>

\* the start of a query method: wsfe refuses an option without a method,
\* then if self.dummy(): raise SystemExit(...); the remote dummy answers
\* with the state of the components or raises
HealthCheck ==
    /\ ws.pc = "dummy"
    /\ IF ws.client = "wsfe" /\ ws.name \notin DOMAIN methods
       THEN ws' = Failed("SystemExit")
       ELSE \/ \E response \in DummyResponses :
                 LET down == IF ws.client = "ws_sr_padron_a4"
                             THEN a4_dummy(response) ELSE dummy(response)
                 IN  ws' = [ws EXCEPT !.calls = Append(@, DummyName(ws.client)),
                                      !.status = Some(response),
                                      !.pc = IF down THEN "failed" ELSE "call",
                                      !.err = IF down THEN "SystemExit" ELSE ""]
            \/ ws' = [ws EXCEPT !.calls = Append(@, DummyName(ws.client)),
                                !.pc = "failed", !.err = "Fault"]
    /\ UNCHANGED << now, cache, pc, inv, call >>

\* the query itself. get_census_data: getPersona for 'persona' and
\* getParameterCollectionByName for 'tabla', each after self.config[name],
\* and no operation for another name (response is never bound);
\* get_taxpayer: getPersona; __request_param: the method of the option,
\* FEParamGetCotizacion after self.config['currency_id'], an attribute that
\* the class may not have
Business ==
    /\ ws.pc = "call"
    /\ IF ws.client = "ws_sr_padron"
       THEN IF ws.name \notin {"persona", "tabla"}
            THEN ws' = Failed("UnboundLocalError")
            ELSE IF ~HasKey(ws.config, ws.name)
            THEN ws' = Failed("KeyError")
            ELSE ws' \in Invoked(IF ws.name = "persona" THEN "getPersona"
                                 ELSE "getParameterCollectionByName")
       ELSE IF ws.client = "ws_sr_padron_a4"
       THEN ws' \in Invoked("getPersona")
       ELSE \/ ws' \in Invoked(methods[ws.name])
            \/ /\ methods[ws.name] = "FEParamGetCotizacion"
               /\ ws' = Failed("AttributeError")
    /\ UNCHANGED << now, cache, pc, inv, call >>

\* the response is turned into JSON, which raises TypeError for a value
\* that json cannot write, and the output file is written: by
\* get_census_data and __request_param themselves, and by the main of
\* ws_sr_padron_a4 once get_taxpayer has returned
WriteOutput ==
    /\ ws.pc = "write"
    /\ \/ ws' = [ws EXCEPT !.output = TRUE, !.pc = "done"]
       \/ ws' = Failed("TypeError")
    /\ UNCHANGED << now, cache, pc, inv, call >>

\* the process ends
ExitService ==
    /\ ws.pc \in {"done", "failed"}
    /\ ws' = NoService
    /\ UNCHANGED << now, cache, pc, inv, call >>

NextService ==
    \/ LaunchMain
    \/ SelectMethod
    \/ LaunchMethod
    \/ HealthCheck
    \/ Business
    \/ WriteOutput
    \/ ExitService

SpecService == InitService /\ [][NextService]_vars

\* ================================================================ claims
\* seconds between the generationTime and the expirationTime of a TRA
TraWindow(tra) ==
    IsoSeconds(HeaderField(tra, "expirationTime").iso)
        - IsoSeconds(HeaderField(tra, "generationTime").iso)

\* C1 as stated: every TRA that create_tra produced expires exactly 15
\* minutes after its generationTime
C1_ExpirationAfter15Minutes ==
    \A p \in Procs : inv[p].tra # None => TraWindow(inv[p].tra[1]) = 15 * 60

\* C1 amended: every TRA that create_tra produced expires exactly 30 minutes
\* after its generationTime, both times carrying the same UTC offset
C1_ExpirationAfter30Minutes ==
    \A p \in Procs :
        inv[p].tra # None =>
            /\ TraWindow(inv[p].tra[1]) = 30 * 60
            /\ HeaderField(inv[p].tra[1], "expirationTime").tz
                 = HeaderField(inv[p].tra[1], "generationTime").tz

\* a TRA was built whose window crosses a local midnight
C1_Witness ==
    \E p \in Procs :
        /\ inv[p].tra # None
        /\ HeaderField(inv[p].tra[1], "expirationTime").iso.day
             # HeaderField(inv[p].tra[1], "generationTime").iso.day

\* the ticket in the cache file an invocation found at its start, if the
\* file exists and parses
CachedTicket(p) ==
    IF inv[p].cache0.exists /\ Elements \subseteq inv[p].cache0.content.present
    THEN Some([token |-> inv[p].cache0.content.token,
               sign |-> inv[p].cache0.content.sign,
               expirationTime |-> inv[p].cache0.content.expirationTime])
    ELSE None

RequestCycle == << "nocache", "build", "sign", "submit", "parse", "write" >>

\* C2: when the cache file exists, parses and expires more than 120
\* seconds after the trusted time read at the check, the invocation is done
\* at once without build, sign or submit, returns the cached token and sign,
\* and the cache file is what it was
C2_CacheReuse ==
    \A p \in Procs :
        ( /\ inv[p].checkTime # None
          /\ CachedTicket(p) # None
          /\ inv[p].checkTime[1] + 120 < CachedTicket(p)[1].expirationTime )
        => /\ pc[p] = "done"
           /\ inv[p].steps = << "cache" >>
           /\ inv[p].result # None
           /\ inv[p].result[1].token = inv[p].cache0.content.token
           /\ inv[p].result[1].sign = inv[p].cache0.content.sign
           /\ cache[inv[p].service] = inv[p].cache0

\* an invocation was served from a cache file that expires 121 seconds
\* after the check
C2_Witness ==
    \E p \in Procs :
        /\ pc[p] = "done"
        /\ inv[p].steps = << "cache" >>
        /\ inv[p].cache0.content.expirationTime = inv[p].checkTime[1] + 121

\* C3: when the cache file expires at or before trusted time + 120 seconds,
\* a successful invocation has run exactly one build, sign, submit, parse
\* cycle and the cache file holds the new response
C3_CacheExpiry ==
    \A p \in Procs :
        ( /\ pc[p] = "done"
          /\ CachedTicket(p) # None
          /\ CachedTicket(p)[1].expirationTime <= inv[p].checkTime[1] + 120 )
        => /\ inv[p].steps = RequestCycle
           /\ inv[p].raw # None
           /\ cache[inv[p].service] = [exists |-> TRUE, content |-> inv[p].raw[1]]
           /\ inv[p].result[1].token = inv[p].raw[1].token
           /\ inv[p].result[1].sign = inv[p].raw[1].sign

\* a successful invocation replaced a cache file that expired exactly 120
\* seconds after the check by a response with another token
C3_Witness ==
    \E p \in Procs :
        /\ pc[p] = "done"
        /\ CachedTicket(p) # None
        /\ CachedTicket(p)[1].expirationTime = inv[p].checkTime[1] + 120
        /\ inv[p].raw # None
        /\ inv[p].raw[1].token # inv[p].cache0.content.token
        /\ cache[inv[p].service].content = inv[p].raw[1]

Contains(seq, x) == \E i \in 1..Len(seq) : seq[i] = x

\* C4: when the transport returns a remote fault, the invocation ends
\* failed with a ProtocolFault error that carries the code and the message
\* of that fault, and the cache file is what it was before the invocation
C4_FaultPreserved ==
    \A p \in Procs :
        inv[p].fault # None =>
            /\ pc[p] = "failed"
            /\ inv[p].result = None
            /\ inv[p].err.kind = "ProtocolFault"
            /\ inv[p].err.code = inv[p].fault[1].code
            /\ inv[p].err.message = inv[p].fault[1].message
            /\ cache[inv[p].service] = inv[p].cache0
            /\ ~Contains(inv[p].steps, "write")

\* the remote answered ns1:CoeEnc to an invocation that found a cache file
C4_Witness ==
    \E p \in Procs :
        /\ inv[p].fault # None
        /\ inv[p].fault[1].code = "ns1:CoeEnc"
        /\ inv[p].cache0.exists
        /\ Elements \subseteq inv[p].cache0.content.present

\* C5: when the signing tool cannot be invoked, the invocation ends failed
\* with the error of the missing openssl executable and it never submits
C5_SigningUnavailable ==
    \A p \in Procs :
        inv[p].tool = "missing" =>
            /\ pc[p] = "failed"
            /\ inv[p].err.message = "No se encontró el ejecutable openssl"
            /\ inv[p].cms = None
            /\ inv[p].steps = << "nocache", "build", "sign" >>

\* an invocation tried to sign without an openssl executable
C5_Witness ==
    \E p \in Procs : inv[p].tool = "missing" /\ inv[p].tra # None

\* C6 as stated: a tool that cannot be executed ends the invocation with
\* the error of the missing executable, and a tool that runs and reports an
\* error ends it with another error, without a submit
C6_SigningFailedDistinct ==
    \A p \in Procs :
        /\ inv[p].tool = "missing" =>
              /\ pc[p] = "failed"
              /\ inv[p].err.message = "No se encontró el ejecutable openssl"
        /\ inv[p].tool = "error" =>
              /\ pc[p] = "failed"
              /\ inv[p].err.message # "No se encontró el ejecutable openssl"
              /\ ~Contains(inv[p].steps, "submit")

\* C7: a cache file that exists and does not parse never ends the
\* invocation at the check: the invocation goes on to build exactly as with
\* no file, and a later failure is one of the request cycle
C7_CorruptCacheIsNoCache ==
    \A p \in Procs :
        ( /\ inv[p].checkTime # None
          /\ inv[p].cache0.exists
          /\ ~(Elements \subseteq inv[p].cache0.content.present) )
        => /\ inv[p].steps[1] = "nocache"
           /\ Len(inv[p].steps) = 1 => pc[p] = "build" /\ inv[p].err.kind = ""
           /\ pc[p] = "failed" => Len(inv[p].steps) >= 2
           /\ inv[p].err.kind # "CacheCorrupt"

\* an invocation that found a truncated cache file obtained a new ticket
C7_Witness ==
    \E p \in Procs :
        /\ pc[p] = "done"
        /\ inv[p].cache0.exists
        /\ ~(Elements \subseteq inv[p].cache0.content.present)
        /\ inv[p].steps = RequestCycle

IsPrefix(s, t) == Len(s) <= Len(t) /\ \A i \in 1..Len(s) : s[i] = t[i]

\* a step of the request cycle of p has failed
StepFailed(p) ==
    \/ Contains(inv[p].steps, "build") /\ inv[p].tra = None
    \/ inv[p].tool \in {"missing", "error"}
    \/ Contains(inv[p].steps, "submit") /\ inv[p].raw = None
    \/ Contains(inv[p].steps, "parse") /\ ~(Elements \subseteq inv[p].raw[1].present)

\* C8: the steps of an invocation are a prefix of check, build, sign,
\* submit, parse, write, so each runs at most once; a failed step leaves the
\* invocation failed with an error and no result, and a failed invocation
\* takes no further step before its process ends
C8_NoRetry ==
    [][\A p \in Procs :
          /\ inv[p].steps = << "cache" >> \/ IsPrefix(inv[p].steps, RequestCycle)
          /\ StepFailed(p) =>
                /\ pc[p] = "failed"
                /\ inv[p].err # NoError
                /\ inv[p].result = None
          /\ pc[p] = "failed" =>
                \/ pc'[p] = "failed" /\ inv'[p] = inv[p]
                \/ pc'[p] = "idle" /\ inv'[p].steps = << >>]_vars

\* an invocation failed at the sign step because openssl reported an error
C8_Witness ==
    \E p \in Procs :
        /\ pc[p] = "failed"
        /\ inv[p].tool = "error"
        /\ inv[p].steps = << "nocache", "build", "sign" >>

\* C9: with no cache file at the start, a successful invocation returns
\* the token and the sign of the response and the cache file of the service
\* then exists and holds exactly the raw response
C9_FreshTicket ==
    \A p \in Procs :
        (pc[p] = "done" /\ ~inv[p].cache0.exists) =>
            /\ inv[p].steps = RequestCycle
            /\ inv[p].raw # None
            /\ inv[p].result # None
            /\ inv[p].result[1].token = inv[p].raw[1].token
            /\ inv[p].result[1].sign = inv[p].raw[1].sign
            /\ cache[inv[p].service] = [exists |-> TRUE, content |-> inv[p].raw[1]]

\* ws_sr_padron_a4 had no cache file and the remote answered AAA / BBB
C9_Witness ==
    \E p \in Procs :
        /\ pc[p] = "done"
        /\ ~inv[p].cache0.exists
        /\ inv[p].service = "ws_sr_padron_a4"
        /\ inv[p].result[1].token = "AAA"
        /\ inv[p].result[1].sign = "BBB"
        /\ cache["ws_sr_padron_a4"].exists

Fields(raw) == << raw.token, raw.sign, raw.expirationTime >>
TicketFields(ticket) == << ticket.token, ticket.sign, ticket.expirationTime >>

C12_ParseAllOrNothing ==
    (call.fn = "Parse" /\ call.out # None) =>
        IF call.arg.present = {"token", "sign", "expirationTime"}
        THEN call.out[1] = << [token |-> call.arg.token, sign |-> call.arg.sign,
                               expirationTime |-> call.arg.expirationTime] >>
        ELSE call.out[1] = << >>

\* the parser was applied to a document that lacks only expirationTime
C12_Witness ==
    /\ call.fn = "Parse"
    /\ call.out # None
    /\ call.arg.present = {"token", "sign"}

\* C13: an invocation with a missing or unreadable certificate, private key
\* or CA bundle ends with a configuration error before the cache is read,
\* the TRA is built, the TRA is signed or the network is used
C13_ConfigurationErrorFirst ==
    \A p \in Procs :
        inv[p].bad # {} =>
            /\ pc[p] \in {"config", "failed"}
            /\ inv[p].steps = << >>
            /\ inv[p].tra = None
            /\ pc[p] = "failed" => inv[p].err.code \in inv[p].bad

\* C14: the servers queried are the primary (when one is configured) and
\* then ar.pool.ntp.org, south-america.pool.ntp.org, up to and including the
\* first that answers; its timestamp is returned; when all of them fail
\* every server was queried and no timestamp is returned
C14_FirstAnswerInOrder ==
    (call.fn = "ntp_time" /\ call.out # None) =>
        LET order == IF call.arg.ntp_server = ""
                     THEN << "ar.pool.ntp.org", "south-america.pool.ntp.org" >>
                     ELSE << call.arg.ntp_server,
                             "ar.pool.ntp.org", "south-america.pool.ntp.org" >>
            answer == call.arg.answer
            queried == call.out[1].queried
            timestamp == call.out[1].timestamp
        IN  /\ IsPrefix(queried, order)
            /\ queried # << >>
            /\ \A i \in 1..(Len(queried) - 1) : answer[queried[i]] = << >>
            /\ timestamp = answer[queried[Len(queried)]]
            /\ timestamp = << >> => queried = order

\* the primary server failed, the first fallback answered, and the second
\* fallback, which would have answered too, was not queried
C14_Witness ==
    /\ call.fn = "ntp_time"
    /\ call.out # None
    /\ call.arg.answer["south-america.pool.ntp.org"] # << >>
    /\ call.out[1].queried = << "afip.time.gob.ar", "ar.pool.ntp.org" >>
    /\ call.out[1].timestamp = << 1002 >>

\* C15: get_timezone gives -00:30 for a local time 30 minutes behind UTC
\* and +03:00 for a local time 3 hours ahead of UTC
C15_OffsetFormatting ==
    (call.fn = "get_timezone" /\ call.out # None) =>
        /\ call.arg.offsetMinutes = 0 - 30 =>
              call.out[1] = << "-", "0", "0", ":", "3", "0" >>
        /\ call.arg.offsetMinutes = 3 * 60 =>
              call.out[1] = << "+", "0", "3", ":", "0", "0" >>

\* get_timezone was applied to a local time 30 minutes behind UTC
C15_Witness ==
    /\ call.fn = "get_timezone"
    /\ call.out # None
    /\ call.arg.offsetMinutes = 0 - 30

\* a TRA came out of the call of create_tra under evaluation
TraBuilt == call.fn = "create_tra" /\ call.out # None /\ call.out[1] # None

\* the names of the children of header, in document order
HeaderNames(tra) == [i \in 1..Len(tra.header) |-> tra.header[i][1]]

\* C16: the children of header are source (if and only if the source DN is
\* not empty), destination, uniqueId, generationTime, expirationTime, in
\* this order, and the text of service is the requested service
C16_HeaderOrder ==
    TraBuilt =>
        /\ HeaderNames(call.out[1][1])
             = (IF call.arg.dn # "" THEN << "source" >> ELSE << >>)
                 \o << "destination", "uniqueId", "generationTime", "expirationTime" >>
        /\ call.out[1][1].service = call.arg.web_service

\* C17: the destination is cn=wsaa,o=afip,c=ar,serialNumber=CUIT 33693450239
\* when the connection is prod and cn=wsaahomo with the same suffix for
\* every other connection value
C17_Destination ==
    TraBuilt =>
        HeaderField(call.out[1][1], "destination")
            = IF call.arg.connection = "prod"
              THEN << "cn=", "wsaa", ",o=afip,c=ar,serialNumber=CUIT 33693450239" >>
              ELSE << "cn=", "wsaahomo", ",o=afip,c=ar,serialNumber=CUIT 33693450239" >>

\* a TRA was built for a connection that is neither prod nor test
C17_Witness == TraBuilt /\ call.arg.connection = "homo"

\* a <= b for two decimal numerals of the same length
NumeralLeq(a, b) ==
    \/ a = b
    \/ \E i \in 1..Len(a) :
          /\ DigitVal(a[i]) < DigitVal(b[i])
          /\ \A j \in 1..(i - 1) : a[j] = b[j]

\* C18: the unique id of a TRA is the decimal numeral of an integer from 0
\* to 4294967295, the one drawn for this request
C18_UniqueIdRange ==
    TraBuilt =>
        LET text == HeaderField(call.out[1][1], "uniqueID")
        IN  /\ Len(text) \in 1..10
            /\ \A i \in 1..Len(text) :
                  text[i] \in {"0", "1", "2", "3", "4", "5", "6", "7", "8", "9"}
            /\ Len(text) > 1 => text[1] # "0"
            /\ Len(text) = 10 =>
                  NumeralLeq(text, << "4", "2", "9", "4", "9", "6", "7", "2", "9", "5" >>)
            /\ call.arg.uniqueId = [hi |-> 0, lo |-> 0] => text = << "0" >>
            /\ call.arg.uniqueId = [hi |-> 0, lo |-> 10] => text = << "1", "0" >>
            /\ call.arg.uniqueId = [hi |-> 65535, lo |-> 65535] =>
                  text = << "4", "2", "9", "4", "9", "6", "7", "2", "9", "5" >>

\* a TRA was built with the largest draw
C18_Witness ==
    /\ TraBuilt
    /\ call.arg.uniqueId = [hi |-> 65535, lo |-> 65535]
    /\ HeaderField(call.out[1][1], "uniqueID")[10] = "5"

\* p writes the cache file in this step
Writes(p) == pc[p] = "issue" /\ pc'[p] = "done"

\* C19: every write puts the whole response of the writer in the place of
\* the cache file of its service, nothing else changes a cache file, so the
\* file holds the complete response of the invocation that wrote last; and
\* an invocation that went through the request cycle returns the
\* credentials of its own response
C19_LastWriterWins ==
    [][/\ \A p \in Procs :
             Writes(p) =>
                 /\ cache' = [cache EXCEPT ![inv[p].service] =
                                 [exists |-> TRUE, content |-> inv[p].raw[1]]]
                 /\ inv[p].raw[1].present = {"token", "sign", "expirationTime"}
       /\ cache' # cache => \E p \in Procs : Writes(p)
       /\ \A p \in Procs :
             (pc'[p] = "done" /\ inv'[p].steps = RequestCycle) =>
                 TicketFields(inv'[p].result[1]) = Fields(inv'[p].raw[1])]_vars

\* both invocations found no ticket, both went through the request cycle
\* and wrote, with different responses; the file holds the response of 2
C19_Witness ==
    /\ pc[1] = "done" /\ pc[2] = "done"
    /\ inv[1].service = inv[2].service
    /\ inv[1].cache0 = [exists |-> FALSE, content |-> EmptyXml]
    /\ inv[2].cache0 = [exists |-> FALSE, content |-> EmptyXml]
    /\ inv[1].steps = RequestCycle /\ inv[2].steps = RequestCycle
    /\ inv[1].result[1].token = "AAA" /\ inv[2].result[1].token = "CCC"
    /\ cache[inv[1].service].content = inv[2].raw[1]

\* p is launched, or reads the cache file, in this step
Reads(p) ==
    \/ pc[p] = "idle" /\ pc'[p] = "config"
    \/ pc[p] = "check" /\ pc'[p] # "check"

\* C20: the ticket file of service S is data/S/ta.xml, two services have
\* two files, and an invocation for S reads and writes the file of S only:
\* what it reads at its launch and serves from the cache is the file of S,
\* and a file changes only when an invocation for its service writes it
C20_KeyedByService ==
    [][/\ \A s \in WebServices :
             set_output_path(s, "ta.xml") = << "data/", s, "/", "ta.xml" >>
       /\ \A s, t \in WebServices :
             s # t => set_output_path(s, "ta.xml") # set_output_path(t, "ta.xml")
       /\ \A s \in WebServices :
             cache'[s] # cache[s] => \E p \in Procs : Writes(p) /\ inv[p].service = s
       /\ \A p \in Procs :
             Reads(p) =>
                 /\ inv'[p].cache0 = cache[inv'[p].service]
                 /\ pc'[p] = "done" =>
                       TicketFields(inv'[p].result[1])
                           = Fields(cache[inv[p].service].content)]_vars

\* an invocation for wsfev1 has written its ticket file while the file of
\* ws_sr_padron_a4 is still the one that was cut short
C20_Witness ==
    \E p \in Procs :
        /\ pc[p] = "done"
        /\ inv[p].service = "wsfev1"
        /\ inv[p].steps = RequestCycle
        /\ cache["wsfev1"].content = inv[p].raw[1]
        /\ cache["ws_sr_padron_a4"].exists
        /\ cache["ws_sr_padron_a4"].content.present = {"token"}

\* C21: a cache file that exists exists in the next state, and the content
\* of a cache file changes only in the step in which an invocation for its
\* service, having parsed the ticket of its response, writes that response
C21_NeverDeleted ==
    [][\A s \in WebServices :
          /\ cache[s].exists => cache'[s].exists
          /\ cache'[s] # cache[s] =>
                \E p \in Procs :
                    /\ pc[p] = "issue" /\ pc'[p] = "done"
                    /\ inv[p].service = s
                    /\ inv[p].ticket # << >>
                    /\ inv[p].raw[1].present = {"token", "sign", "expirationTime"}
                    /\ cache'[s].exists
                    /\ cache'[s].content = inv[p].raw[1]]_vars

\* an invocation failed after it found the complete ticket file that an
\* earlier invocation wrote, and the file is still there, unchanged
C21_Witness ==
    \E p \in Procs :
        /\ pc[p] = "failed"
        /\ inv[p].cache0.exists
        /\ inv[p].cache0.content.present = {"token", "sign", "expirationTime"}
        /\ cache[inv[p].service] = inv[p].cache0

\* the business operations of the downstream services
BusinessOperations ==
    {"getPersona", "getParameterCollectionByName", "FEParamGetTiposCbte",
     "FEParamGetTiposConcepto", "FEParamGetTiposDoc", "FEParamGetTiposIva",
     "FEParamGetTiposMonedas", "FEParamGetTiposOpcional",
     "FEParamGetTiposTributos", "FEParamGetPtosVenta", "FEParamGetCotizacion",
     "FEParamGetTiposPaises"}

\* the positions of the business operations among the remote operations
\* of the run
BusinessCalls == { i \in 1..Len(ws.calls) : ws.calls[i] \in BusinessOperations }

\* C22: a business operation of a downstream service is invoked only after
\* the health check of the same run answered 'OK' for every component; when
\* a component is not 'OK' the run has ended, no business operation was
\* invoked and no output file was written
C22_HealthCheckFirst ==
    /\ \A i \in BusinessCalls :
          /\ \E j \in 1..(i - 1) : ws.calls[j] \in {"dummy", "FEDummy"}
          /\ ws.status # None
          /\ \A component \in {"appserver", "authserver", "dbserver"} :
                ws.status[1][component] = "OK"
    /\ (ws.status # None /\ \E component \in {"appserver", "authserver", "dbserver"} :
                                ws.status[1][component] # "OK")
          => /\ ws.pc = "failed"
             /\ BusinessCalls = {}
             /\ ~ws.output
    /\ ws.output => BusinessCalls # {}

\* get_census_data asked the table after a health check with every
\* component 'OK' and wrote its output file
C22_Witness ==
    /\ ws.client = "ws_sr_padron"
    /\ ws.pc = "done"
    /\ ws.output
    /\ ws.calls = << "dummy", "getParameterCollectionByName" >>
    /\ ws.status = Some([component \in {"appserver", "authserver", "dbserver"} |-> "OK"])

\* C23: dummy is true exactly when the status of appserver, authserver or
\* dbserver in the response is not 'OK', and the __dummy of ws_sr_padron_a4
\* gives the same value for the same response
C23_DummyDown ==
    (call.fn = "dummy" /\ call.out # None) =>
        LET r == call.arg.response
            down == r["appserver"] # "OK" \/ r["authserver"] # "OK" \/ r["dbserver"] # "OK"
        IN  /\ call.out[1].dummy = down
            /\ call.out[1].a4_dummy = call.out[1].dummy

\* the health check was applied to a response in which only the database
\* server is not 'OK'
C23_Witness ==
    /\ call.fn = "dummy"
    /\ call.out # None
    /\ call.arg.response = [appserver |-> "OK", authserver |-> "OK", dbserver |-> "ERROR"]
    /\ call.out[1].dummy

\* the check digit of the first ten digits d: 11 minus the remainder of the
\* weighted sum, 11 taken as 0 and 10 as 9
CheckDigit(d) ==
    LET sum == d[1] * 5 + d[2] * 4 + d[3] * 3 + d[4] * 2 + d[5] * 7
                 + d[6] * 6 + d[7] * 5 + d[8] * 4 + d[9] * 3 + d[10] * 2
        c == 11 - (sum % 11)
    IN  IF c = 11 THEN 0 ELSE IF c = 10 THEN 9 ELSE c

\* C24: check_cuit of libs succeeds on xxyyyyyyyyz and on xx-yyyyyyyy-z alike,
\* exactly when z is the check digit of the first ten digits
C24_BothFormats ==
    (call.fn = "check_cuit" /\ call.out # None) =>
        (call.out[1].libs = "True"
            <=> call.arg.digits[11] = CheckDigit(call.arg.digits))

\* C25: on an 11 digit string, libs.validation.check_cuit returns True
\* exactly when functions.validation.check_cuit returns True, and raises
\* ValueError exactly when the latter returns False
C25_ValidatorsAgree ==
    (call.fn = "check_cuit" /\ call.out # None /\ ~call.arg.hyphenated) =>
        /\ call.out[1].libs = "True" <=> call.out[1].functions = "True"
        /\ call.out[1].libs = "ValueError" <=> call.out[1].functions = "False"

\* both validators accepted 20-00000001-9 written without hyphens, whose
\* check digit comes from 10
C25_Witness ==
    /\ call.fn = "check_cuit"
    /\ call.out # None
    /\ ~call.arg.hyphenated
    /\ call.arg.digits = << 2, 0, 0, 0, 0, 0, 0, 0, 0, 1, 9 >>
    /\ call.out[1].libs = "True"
    /\ call.out[1].functions = "True"

\* the values given on the command line are ones the argument parser takes
ValuesTaken(cmd) ==
    /\ cmd.scope \in {"4", "5", "10", "100"}
    /\ cmd.table \in {"", "SUPA.E_PROVINCIA", "PUC_PARAM.T_CALLE"}
    /\ cmd.person \in {<< >>, << "2", "0", "1", "2", "3", "4", "5", "6", "7", "8", "6" >>}

\* C26: check_parser accepts a command line of ws_sr_padron.py exactly when
\* scope is 100 with a table and no person, or scope is 4, 5 or 10 with a
\* person and no table; every other command line ends in a parser error
C26_ScopeTablePerson ==
    (call.fn = "check_parser" /\ call.out # None) =>
        (call.out[1] = "ok" <=>
            /\ ValuesTaken(call.arg)
            /\ \/ /\ call.arg.scope = "100"
                  /\ call.arg.table # ""
                  /\ call.arg.person = << >>
               \/ /\ call.arg.scope \in {"4", "5", "10"}
                  /\ call.arg.person # << >>
                  /\ call.arg.table = "")

\* a command line with scope 100 and a person ended in a parser error
C26_Witness ==
    /\ call.fn = "check_parser"
    /\ call.out # None
    /\ call.arg.scope = "100"
    /\ call.arg.table = ""
    /\ call.arg.person = << "2", "0", "1", "2", "3", "4", "5", "6", "7", "8", "6" >>
    /\ call.out[1] = "error"

\* C27: a run of ws_sr_padron main with an accepted command line that is
\* past the choice of the method asks 'tabla' for scope 100 and 'persona'
\* for scopes 4, 5 and 10, and one that wrote its output for scope 100
\* invoked getParameterCollectionByName
C27_MethodByScope ==
    (ws.entry = "main" /\ check_parser(ws.cmd) = "ok" /\ ws.pc \notin {"idle", "main"})
        => /\ ws.name = IF ws.cmd.scope = "100" THEN "tabla" ELSE "persona"
           /\ (ws.pc = "done" /\ ws.cmd.scope = "100")
                 => \E i \in 1..Len(ws.calls) : ws.calls[i] = "getParameterCollectionByName"

\* C28: get_datetime always returns a date and time: the local clock when
\* the primary and both fallback servers fail, else the time of the first
\* server that answers, in both cases without the fraction of a second
C28_NeverFails ==
    (call.fn = "get_datetime" /\ call.out # None) =>
        LET order == IF call.arg.source = ""
                     THEN << "ar.pool.ntp.org", "south-america.pool.ntp.org" >>
                     ELSE << call.arg.source,
                             "ar.pool.ntp.org", "south-america.pool.ntp.org" >>
            answering == { i \in 1..Len(order) : call.arg.answer[order[i]] # << >> }
            first == CHOOSE i \in answering : \A j \in answering : i <= j
            millis == IF answering = {} THEN call.arg.localClock
                      ELSE call.arg.answer[order[first]][1]
        IN  /\ call.out[1] # << >>
            /\ call.out[1][1] = ((millis - (millis % 1000)) \div 1000) + LocalOffsetMinutes * 60

\* no server answered and the local clock, 5.999 s, was returned as 5 s
C28_Witness ==
    /\ call.fn = "get_datetime"
    /\ call.out # None
    /\ \A server \in DOMAIN call.arg.answer : call.arg.answer[server] = << >>
    /\ call.arg.localClock = 5999
    /\ call.out[1] = << 5 + LocalOffsetMinutes * 60 >>

\* C29: for a local offset of m whole minutes, from -12:00 to +14:00,
\* get_timezone gives the sign, '-' exactly when m < 0, two digits of hours,
\* ':' and two digits of minutes, of the magnitude of m
C29_SignedTwoDigitOffset ==
    (call.fn = "get_timezone" /\ call.out # None) =>
        LET m == call.arg.offsetMinutes
            a == IF m < 0 THEN 0 - m ELSE m
            digit == [n \in 0..9 |-> << "0", "1", "2", "3", "4", "5", "6", "7", "8", "9" >>[n + 1]]
        IN  call.out[1] = << IF m < 0 THEN "-" ELSE "+",
                             digit[(a \div 60) \div 10], digit[(a \div 60) % 10], ":",
                             digit[(a % 60) \div 10], digit[(a % 60) % 10] >>

\* get_timezone was applied to a local time 10 hours and 5 minutes ahead
C29_Witness ==
    /\ call.fn = "get_timezone"
    /\ call.out # None
    /\ call.arg.offsetMinutes = 605
    /\ call.out[1] = << "+", "1", "0", ":", "0", "5" >>

\* the value with every datetime at any depth converted and nothing else
\* changed
RECURSIVE Mapped(_)
Mapped(value) ==
    IF value.t = "dt" THEN [t |-> "str", v |-> value.v \div 1000, kids |-> << >>]
    ELSE [value EXCEPT !.kids = [i \in 1..Len(value.kids) |->
                                    [key |-> value.kids[i].key,
                                     val |-> Mapped(value.kids[i].val)]]]

\* C30: map_nested_dicts converts every datetime of the dictionary, in the
\* dictionary itself, in nested dictionaries and inside lists, and keys,
\* nesting, list lengths and all other values stay as they were
C30_MapsEveryValue ==
    (call.fn = "map_nested_dicts" /\ call.out # None) =>
        call.out[1] = Mapped(call.arg)

====
